---------------------------- MODULE Spec2Model ----------------------------
(***************************************************************************)
(* Admin front-end of the form builder: the logic-action editors           *)
(* (Actions.js), the variable picker (VariableSelection.js) and the        *)
(* prefill configuration form (PrefillConfigurationForm.js and its later   *)
(* revision that loads the attributes with useAsync).                      *)
(***************************************************************************)
EXTENDS Integers, Sequences, FiniteSets, TLC

(***************************************************************************)
(* JavaScript values.  A value carries its runtime type in k, so that the  *)
(* boolean true, the string 'true' and the number 1 are three values.      *)
(* Strings that are converted are sequences of characters.                 *)
(***************************************************************************)
MaxNum == 12

JStr(s) == [k |-> "string", v |-> s]
JBool(b) == [k |-> "boolean", v |-> b]
JNum(n) == [k |-> "number", v |-> n]
JNull == [k |-> "null", v |-> 0]
JUndefined == [k |-> "undefined", v |-> 0]
TypeError == [k |-> "throw", v |-> "TypeError"]
SyntaxError == [k |-> "throw", v |-> "SyntaxError"]

S_empty == <<>>
S_true == <<"t", "r", "u", "e">>
S_false == <<"f", "a", "l", "s", "e">>
S_null == <<"n", "u", "l", "l">>

Digits == <<"0", "1", "2", "3", "4", "5", "6", "7", "8", "9">>

DigitChar(d) == Digits[d + 1]

DigitValue(c) == CHOOSE d \in 0..9 : Digits[d + 1] = c

IsDigit(c) == \E d \in 0..9 : Digits[d + 1] = c

RECURSIVE NatToString(_)
NatToString(n) ==
  IF n < 10 THEN <<DigitChar(n)>>
  ELSE Append(NatToString(n \div 10), DigitChar(n % 10))

RECURSIVE StringToNat(_)
StringToNat(s) ==
  IF Len(s) = 1 THEN DigitValue(s[1])
  ELSE 10 * StringToNat(SubSeq(s, 1, Len(s) - 1)) + DigitValue(s[Len(s)])

\* a JSON number literal: digits without a leading zero
IsNumberLiteral(s) ==
  /\ Len(s) >= 1
  /\ \A i \in 1..Len(s) : IsDigit(s[i])
  /\ (Len(s) > 1 => s[1] # "0")

\* JavaScript truthiness of a value
Truthy(x) ==
  CASE x.k = "boolean" -> x.v
    [] x.k = "string" -> x.v # S_empty
    [] x.k = "number" -> x.v # 0
    [] OTHER -> FALSE

(***************************************************************************)
(* logic/constants: the modifiable properties and the coercion tables      *)
(***************************************************************************)
BOOL_OPTIONS == <<JStr(S_true), JStr(S_false)>>

MODIFIABLE_PROPERTIES ==
  [p \in {"validate.required", "hidden", "disabled"} |->
     [type |-> "bool", options |-> BOOL_OPTIONS]]

CoercionTypes == {"bool", "json"}

JsonStringify(x) ==
  CASE x.k = "boolean" -> JStr(IF x.v THEN S_true ELSE S_false)
    [] x.k = "number" -> JStr(NatToString(x.v))
    [] x.k = "null" -> JStr(S_null)
    [] OTHER -> JUndefined

JsonParse(s) ==
  IF s = S_true THEN JBool(TRUE)
  ELSE IF s = S_false THEN JBool(FALSE)
  ELSE IF s = S_null THEN JNull
  ELSE IF IsNumberLiteral(s) THEN JNum(StringToNat(s))
  ELSE SyntaxError

\* TYPE_TO_STRING[valueType](value); a type without an entry has no function to call
TYPE_TO_STRING(valueType, value) ==
  CASE valueType = "bool" -> JStr(IF Truthy(value) THEN S_true ELSE S_false)
    [] valueType = "json" -> JsonStringify(value)
    [] OTHER -> TypeError

\* STRING_TO_TYPE[valueType](value)
STRING_TO_TYPE(valueType, value) ==
  CASE valueType = "bool" -> JBool(value = JStr(S_true))
    [] valueType = "json" -> (IF value.k = "string" THEN JsonParse(value.v) ELSE SyntaxError)
    [] OTHER -> TypeError

\* the stored states that are legal for a property type
JsonValues == {JNull, JBool(TRUE), JBool(FALSE)} \cup {JNum(n) : n \in 0..MaxNum}

Unset == JStr(S_empty)

TypedStates(t) ==
  CASE t = "bool" -> {JBool(TRUE), JBool(FALSE)}
    [] t = "json" -> JsonValues
    [] OTHER -> {}

\* a state that was never chosen is the empty string, whatever the type
LegalStates(t) == TypedStates(t) \cup {Unset}


VARIABLES
  act,        \* logic action being edited: [type, property: [type, value], state]
  errors,     \* the errors prop of the action editor
  onChange,   \* the onChange prop of the action editor (which handler it is)
  out,        \* what ActionComponent rendered for the current props
  shown,      \* value shown by the state dropdown of ActionProperty
  lastEvent,  \* last change event handed to onChange
  picked      \* what the operator last picked in a select of the editor

actionVars == <<act, errors, onChange, out, shown, lastEvent, picked>>

VARIABLES
  rev,            \* revision of the prefill form
  pluginProp,     \* the plugin prop the form was opened with
  values,         \* Formik values: [plugin, attribute, prefillOptions]
  mounted,        \* the form is on screen
  fieldSet,       \* the field set that is mounted
  loader,         \* attribute loading state: [loading, value, error]
  requests,       \* attribute lookups in flight
  attributeField, \* the rendered attribute dropdown
  touched,        \* the operator changed the plugin since the form was shown
  last            \* the last operation and what it asked of the operator

prefillVars ==
  <<rev, pluginProp, values, mounted, fieldSet, loader, requests, attributeField,
    touched, last>>

VARIABLES
  formVariables,          \* FormContext.formVariables
  staticVariables,        \* FormContext.staticVariables
  includeStaticVariables, \* prop of VariableSelection
  filter,                 \* prop of VariableSelection: which predicate
  choices,                \* the option groups VariableSelection rendered
  selName,                \* prop of VariableSelection: its name
  selPicked,              \* the option value the operator last picked
  selEvent                \* last change event VariableSelection handed to onChange

selVars ==
  <<formVariables, staticVariables, includeStaticVariables, filter, choices, selName,
    selPicked, selEvent>>

VARIABLES
  fetchContext,   \* FormContext.formVariables seen by ActionFetchFromService
  fetchVariable,  \* action.variable of the fetch-from-service action
  initialValues,  \* the initialValues handed to ServiceFetchConfigurationPicker
  handedContext,  \* formVariables as the context provider last handed them over
  renders         \* renders of the editor since then

fetchVars == <<fetchContext, fetchVariable, initialValues, handedContext, renders>>

VARIABLES
  sensitiveComponents, \* SENSITIVE_PASSWORD.components
  formCalled,          \* PasswordField.editForm() was called
  editFormResult       \* what PasswordField.editForm() returned

passwordVars == <<sensitiveComponents, formCalled, editFormResult>>

vars == <<actionVars, prefillVars, selVars, fetchVars, passwordVars>>

notActionVars == <<prefillVars, selVars, fetchVars, passwordVars>>

notPrefillVars == <<actionVars, selVars, fetchVars, passwordVars>>

notSelVars == <<actionVars, prefillVars, fetchVars, passwordVars>>

notFetchVars == <<actionVars, prefillVars, selVars, passwordVars>>

notPasswordVars == <<actionVars, prefillVars, selVars, fetchVars>>

(***************************************************************************)
(* Actions.js                                                              *)
(***************************************************************************)
ActionTypes ==
  {"", "disable-next", "property", "variable", "fetch-from-service",
   "step-not-applicable", "step-applicable", "set-registration-backend",
   "unknown-type", "copy-value"}

ErrorProps == {"noErrors", "someErrors"}

Handlers == {"handlerA", "handlerB"}

NoEvent == [name |-> "", value |-> JUndefined]

NotShown == JUndefined

\* a pick in a select: the select's name and the option value, a property key or
\* a state string
Picked(select, key, option) == [select |-> select, key |-> key, option |-> option]

NoPick == Picked("", "", JUndefined)

Element(Component, action, errs, handler) ==
  [kind |-> "element", Component |-> Component,
   props |-> [action |-> action, errors |-> errs, onChange |-> handler]]

RenderedNull == [kind |-> "null"]

Thrown(type) == [kind |-> "throw", message |-> <<"Unknown action type: ", type>>]

\* faulty variant: both step editors are the one of step-not-applicable
ActionComponent_StepMixedUp(action, errs, handler) ==
  CASE action.type = "property" -> Element("ActionProperty", action, errs, handler)
    [] action.type = "variable" -> Element("ActionVariableValue", action, errs, handler)
    [] action.type = "fetch-from-service" ->
         Element("ActionFetchFromService", action, errs, handler)
    [] action.type \in {"", "disable-next"} -> RenderedNull
    [] action.type \in {"step-not-applicable", "step-applicable"} ->
         Element("ActionStepNotApplicable", action, errs, handler)
    [] action.type = "set-registration-backend" ->
         Element("ActionSetRegistrationBackend", action, errs, handler)
    [] OTHER -> Thrown(action.type)

\* faulty variant: the switch has no default branch
ActionComponent_NoDefault(action, errs, handler) ==
  CASE action.type = "property" -> Element("ActionProperty", action, errs, handler)
    [] action.type = "variable" -> Element("ActionVariableValue", action, errs, handler)
    [] action.type = "fetch-from-service" ->
         Element("ActionFetchFromService", action, errs, handler)
    [] action.type \in {"", "disable-next"} -> RenderedNull
    [] action.type = "step-not-applicable" ->
         Element("ActionStepNotApplicable", action, errs, handler)
    [] action.type = "step-applicable" ->
         Element("ActionStepApplicable", action, errs, handler)
    [] action.type = "set-registration-backend" ->
         Element("ActionSetRegistrationBackend", action, errs, handler)
    [] OTHER -> RenderedNull

\* faulty variant: the switch has no case for disable-next
ActionComponent_NoDisableNext(action, errs, handler) ==
  CASE action.type = "property" -> Element("ActionProperty", action, errs, handler)
    [] action.type = "variable" -> Element("ActionVariableValue", action, errs, handler)
    [] action.type = "fetch-from-service" ->
         Element("ActionFetchFromService", action, errs, handler)
    [] action.type = "" -> RenderedNull
    [] action.type = "step-not-applicable" ->
         Element("ActionStepNotApplicable", action, errs, handler)
    [] action.type = "step-applicable" ->
         Element("ActionStepApplicable", action, errs, handler)
    [] action.type = "set-registration-backend" ->
         Element("ActionSetRegistrationBackend", action, errs, handler)
    [] OTHER -> Thrown(action.type)

ActionComponent(action, errs, handler) ==
  CASE action.type = "property" -> Element("ActionProperty", action, errs, handler)
    [] action.type = "variable" -> Element("ActionVariableValue", action, errs, handler)
    [] action.type = "fetch-from-service" ->
         Element("ActionFetchFromService", action, errs, handler)
    [] action.type \in {"", "disable-next"} -> RenderedNull
    [] action.type = "step-not-applicable" ->
         Element("ActionStepNotApplicable", action, errs, handler)
    [] action.type = "step-applicable" ->
         Element("ActionStepApplicable", action, errs, handler)
    [] action.type = "set-registration-backend" ->
         Element("ActionSetRegistrationBackend", action, errs, handler)
    [] OTHER -> Thrown(action.type)

castValueTypeToString(action) ==
  TYPE_TO_STRING(action.property.type, action.state)

\* faulty variant: the selected option is handed on as the string it is
castValueStringToType_Uncast(action, value) == value

castValueStringToType(action, value) ==
  STRING_TO_TYPE(action.property.type, value)

\* MODIFIABLE_PROPERTIES[key]?.type || ''
PropertyTypeOf(key) ==
  IF key \in DOMAIN MODIFIABLE_PROPERTIES THEN MODIFIABLE_PROPERTIES[key].type ELSE ""

\* faulty variant: the type of the property is not looked up
PropertyChangeEvent_NoType(name, propertySelected) ==
  [name |-> name, value |-> [type |-> "", value |-> propertySelected]]

\* the event the property select hands to onChange
PropertyChangeEvent(name, propertySelected) ==
  [name |-> name,
   value |-> [type |-> PropertyTypeOf(propertySelected), value |-> propertySelected]]

\* the event the state select hands to onChange
StateChangeEvent(action, name, value) ==
  [name |-> name, value |-> castValueStringToType(action, value)]

\* faulty variant: the state select is rendered whatever the property
StateSelectShown_Always(action) == TRUE

\* the state select is rendered only for a known property
StateSelectShown(action) == action.property.value \in DOMAIN MODIFIABLE_PROPERTIES

StateSelectValue(action) ==
  IF StateSelectShown(action) THEN castValueTypeToString(action) ELSE NotShown

\* choices of the state select, with the blank option of allowBlank
StateChoices(action) ==
  {JStr(S_empty)} \cup
    {MODIFIABLE_PROPERTIES[action.property.value].options[i] :
       i \in 1..Len(MODIFIABLE_PROPERTIES[action.property.value].options)}

\* choices of the property select, with the blank option of allowBlank
modifiablePropertyChoices == {""} \cup DOMAIN MODIFIABLE_PROPERTIES

\* the values a change event of the property select can carry: the options, and
\* a key MODIFIABLE_PROPERTIES does not hold
PropertySelections == modifiablePropertyChoices \cup {"unknown-property"}

\* the parent applies a change event to the action by the event's name
ApplyChange(action, event) ==
  CASE event.name = "action.property" -> [action EXCEPT !.property = event.value]
    [] event.name = "action.state" -> [action EXCEPT !.state = event.value]
    [] OTHER -> action

\* an action as the rule editor hands it over: the property record agrees with
\* MODIFIABLE_PROPERTIES and the state is one its type allows
StoredActions ==
  {a \in [type : ActionTypes,
          property : [type : {"", "bool"}, value : modifiablePropertyChoices],
          state : LegalStates("bool")] :
     /\ a.property.type = PropertyTypeOf(a.property.value)
     /\ a.state \in LegalStates(a.property.type)}

InitAction ==
  /\ act \in StoredActions
  /\ errors \in ErrorProps
  /\ onChange \in Handlers
  /\ out = ActionComponent(act, errors, onChange)
  /\ shown = (IF act.type = "property" THEN StateSelectValue(act) ELSE NotShown)
  /\ lastEvent = NoEvent
  /\ picked = NoPick

\* a change event reaches the parent, which updates the action and renders again
Dispatch(event) ==
  /\ lastEvent' = event
  /\ act' = ApplyChange(act, event)
  /\ out' = ActionComponent(act', errors, onChange)
  /\ shown' = StateSelectValue(act')
  /\ UNCHANGED <<errors, onChange>>

SelectProperty ==
  /\ UNCHANGED notActionVars
  /\ out.kind = "element" /\ out.Component = "ActionProperty"
  /\ \E propertySelected \in PropertySelections :
       /\ picked' = Picked("action.property", propertySelected, JUndefined)
       /\ Dispatch(PropertyChangeEvent("action.property", propertySelected))

SelectState ==
  /\ UNCHANGED notActionVars
  /\ out.kind = "element" /\ out.Component = "ActionProperty"
  /\ StateSelectShown(act)
  /\ \E value \in StateChoices(act) :
       /\ picked' = Picked("action.state", "", value)
       /\ Dispatch(StateChangeEvent(act, "action.state", value))

NextAction == SelectProperty \/ SelectState

(***************************************************************************)
(* PrefillConfigurationForm.js, in two revisions: the one that loads the   *)
(* attributes in a useEffect of the form ("useEffect") and the one that    *)
(* loads them with useAsync in the field sets ("useAsync").                *)
(***************************************************************************)
MaxMappings == 2
MaxAttrs == 2

Revisions == {"useEffect", "useAsync"}

\* the plugin id the form compares values.plugin with
ObjectsPluginId == [useEffect |-> "objects", useAsync |-> "objects_api"]

\* availablePrefillPlugins of the form context
PluginIds == {"demo", "objects", "objects_api"}

ApiGroups == {"group1", "group2"}
ObjectTypes == {"ot1", "ot2"}
\* 0 stands for the version that is not chosen yet (null)
Versions == {1, 2}
MappingRows == {"rowA"}

\* attribute ids are <<plugin, objecttype, version, n>>; this one is the empty string
NoAttribute == <<"", "", 0, 0>>

LOADING_OPTION == << << <<"...", "", 0, 0>>, <<"loading...", "", "", 0, 0>> >> >>

DefaultPrefillOptions ==
  [objectsApiGroup |-> "", objecttype |-> "", objecttypeVersion |-> 0,
   variablesMapping |-> <<>>]

\* what the backend returns for an endpoint
ResponseData(plugin, objecttype, version) ==
  IF plugin = "" THEN <<>>
  ELSE [n \in 1..MaxAttrs |->
          [id |-> <<plugin, objecttype, version, n>>,
           label |-> <<"label", plugin, objecttype, version, n>>]]

\* response.data.map(attribute => [attribute.id, attribute.label])
ChoicesOf(data) == [i \in 1..Len(data) |-> <<data[i].id, data[i].label>>]

FieldSetFor(r, vals) ==
  IF vals.plugin = ObjectsPluginId[r] THEN "ObjectsAPIPrefillFields" ELSE "PrefillFields"

\* faulty variant: disabled follows the plugin the form was opened with
AttributeFieldDisabled_FromProp(prop, vals) == prop = ""

\* AttributeField: disabled={!plugin}, plugin taken from the Formik values
AttributeFieldDisabled(prop, vals) == vals.plugin = ""

\* the attribute dropdown as rendered: only PrefillFields has one
RenderAttributeField(r, prop, vals, ldr) ==
  IF r = "useAsync" /\ ldr.error THEN "absent"
  ELSE IF FieldSetFor(r, vals) = "ObjectsAPIPrefillFields" THEN "absent"
  ELSE IF AttributeFieldDisabled(prop, vals) THEN "disabled"
  ELSE "enabled"

\* const prefillAttributes = loading ? LOADING_OPTION : value
prefillAttributes(ldr) == IF ldr.loading THEN LOADING_OPTION ELSE ldr.value

NoCall == [kind |-> "none", plugin |-> "", objecttype |-> "", version |-> 0]

\* useEffect of the form: get(`/api/v2/prefill/plugins/${plugin}/attributes`)
FormEffectCall(plugin) ==
  [kind |-> "get", plugin |-> plugin, objecttype |-> "", version |-> 0]

\* useAsync of PrefillFields
PrefillFieldsCall(plugin) ==
  IF plugin = "" THEN NoCall
  ELSE [kind |-> "get", plugin |-> plugin, objecttype |-> "", version |-> 0]

\* useAsync of ObjectsAPIPrefillFields
ObjectsFieldsCall(plugin, objecttype, objecttypeVersion) ==
  IF plugin = "" \/ objecttype = "" \/ objecttypeVersion = 0 THEN NoCall
  ELSE [kind |-> "get", plugin |-> plugin, objecttype |-> objecttype,
        version |-> objecttypeVersion]

\* the lookup a field set of the useAsync revision starts with its props
FieldSetCall(fs, prop, vals) ==
  IF fs = "ObjectsAPIPrefillFields"
  THEN ObjectsFieldsCall(prop, vals.prefillOptions.objecttype,
                         vals.prefillOptions.objecttypeVersion)
  ELSE PrefillFieldsCall(prop)

Live(call) == [call |-> call, live |-> TRUE]

\* faulty variant: the cleanup leaves the lookups as they are
Outdated_StillLive(reqs) == reqs

\* cleanup: a response to these is ignored from now on, whatever it carries
Outdated(reqs) == {[call |-> NoCall, live |-> FALSE] : q \in reqs}

Loading == [loading |-> TRUE, value |-> <<>>, error |-> FALSE]

\* PluginField: useUpdateEffect(() => setFieldValue('attribute', ''), [setFieldValue, value]);
\* the effect is skipped on the first render of a PluginField
PluginFieldEffect(remounted, oldValue, vals) ==
  IF ~remounted /\ vals.plugin # oldValue
  THEN [vals EXCEPT !.attribute = NoAttribute]
  ELSE vals

\* faulty variant: the mapping is cleared before the operator answered
apiGroupChangeCheck_ClearsFirst(vals, confirmSwitch) ==
  IF Len(vals.prefillOptions.variablesMapping) = 0
  THEN [asked |-> FALSE, ok |-> TRUE, values |-> vals]
  ELSE [asked |-> TRUE, ok |-> confirmSwitch,
        values |-> [vals EXCEPT !.prefillOptions.variablesMapping = <<>>]]

\* onChangeCheck of ObjectsAPIGroup
apiGroupChangeCheck(vals, confirmSwitch) ==
  IF Len(vals.prefillOptions.variablesMapping) = 0
  THEN [asked |-> FALSE, ok |-> TRUE, values |-> vals]
  ELSE IF ~confirmSwitch
  THEN [asked |-> TRUE, ok |-> FALSE, values |-> vals]
  ELSE [asked |-> TRUE, ok |-> TRUE,
        values |-> [vals EXCEPT !.prefillOptions.variablesMapping = <<>>]]

\* faulty variant: a confirmed change keeps the mapping
objectTypeChangeCheck_KeepsMapping(vals, confirmSwitch) ==
  IF Len(vals.prefillOptions.variablesMapping) = 0
  THEN [asked |-> FALSE, ok |-> TRUE, values |-> vals]
  ELSE [asked |-> TRUE, ok |-> confirmSwitch, values |-> vals]

\* onChangeCheck of ObjectTypeSelect
objectTypeChangeCheck(vals, confirmSwitch) ==
  IF Len(vals.prefillOptions.variablesMapping) = 0
  THEN [asked |-> FALSE, ok |-> TRUE, values |-> vals]
  ELSE IF ~confirmSwitch
  THEN [asked |-> TRUE, ok |-> FALSE, values |-> vals]
  ELSE [asked |-> TRUE, ok |-> TRUE,
        values |-> [vals EXCEPT !.prefillOptions.variablesMapping = <<>>]]

\* faulty variant: a new version removes the mapping, as a new object type does
objectTypeVersionChange_ClearsMapping(vals, version) ==
  [vals EXCEPT !.prefillOptions.objecttypeVersion = version,
               !.prefillOptions.variablesMapping = <<>>]

\* ObjectTypeVersionSelect has no onChangeCheck: the field takes the new version
objectTypeVersionChange(vals, version) ==
  [vals EXCEPT !.prefillOptions.objecttypeVersion = version]

Op(name, asked, confirmed, accepted) ==
  [op |-> name, asked |-> asked, confirmed |-> confirmed, accepted |-> accepted]

\* the props of a new variable (the defaults) or of one configured before
InitialProps ==
  {v \in [plugin : {""} \cup PluginIds,
          attribute : {NoAttribute} \cup {<<p, "", 0, 1>> : p \in PluginIds},
          prefillOptions :
            {DefaultPrefillOptions,
             [objectsApiGroup |-> "group1", objecttype |-> "ot1", objecttypeVersion |-> 1,
              variablesMapping |-> <<"rowA">>]}] :
     v.attribute \in {NoAttribute, <<v.plugin, "", 0, 1>>}}

InitPrefill ==
  /\ rev \in Revisions
  /\ values \in InitialProps
  /\ pluginProp = values.plugin
  /\ mounted = TRUE
  /\ fieldSet = FieldSetFor(rev, values)
  /\ loader = Loading
  /\ requests = {Live(IF rev = "useEffect" THEN FormEffectCall(pluginProp)
                      ELSE FieldSetCall(fieldSet, pluginProp, values))}
  /\ attributeField = RenderAttributeField(rev, pluginProp, values, loader)
  /\ touched = FALSE
  /\ last = Op("mount", FALSE, FALSE, FALSE)

Usable == mounted /\ ~(rev = "useAsync" /\ loader.error)

\* Formik renders the form again with new values; in the useAsync revision the
\* field set starts a lookup when it is mounted or when its dependencies change
Rerender(vals) ==
  LET fs == FieldSetFor(rev, vals)
      restart == rev = "useAsync" /\
                 (fs # fieldSet \/
                  FieldSetCall(fs, pluginProp, vals) # FieldSetCall(fs, pluginProp, values))
  IN /\ values' = vals
     /\ fieldSet' = fs
     /\ loader' = (IF ~restart THEN loader
                   ELSE IF fs # fieldSet THEN Loading
                   ELSE [loader EXCEPT !.loading = TRUE])
     /\ requests' = (IF restart
                     THEN Outdated(requests) \cup {Live(FieldSetCall(fs, pluginProp, vals))}
                     ELSE requests)
     /\ attributeField' = RenderAttributeField(rev, pluginProp, vals, loader')
     /\ UNCHANGED <<rev, pluginProp, mounted>>

ChangePlugin ==
  /\ UNCHANGED notPrefillVars
  /\ Usable
  /\ \E p \in ({""} \cup PluginIds) \ {values.plugin} :
       LET changed == [values EXCEPT !.plugin = p]
           remounted == FieldSetFor(rev, changed) # fieldSet
       IN /\ Rerender(PluginFieldEffect(remounted, values.plugin, changed))
          /\ touched' = TRUE
          /\ last' = Op("plugin", FALSE, FALSE, TRUE)

ChangeAttribute ==
  /\ UNCHANGED notPrefillVars
  /\ Usable
  /\ attributeField = "enabled"
  /\ \E a \in {NoAttribute} \cup
       {prefillAttributes(loader)[i][1] : i \in 1..Len(prefillAttributes(loader))} :
       /\ a # values.attribute
       /\ Rerender([values EXCEPT !.attribute = a])
       /\ last' = Op("attribute", FALSE, FALSE, TRUE)
  /\ UNCHANGED touched

ChangeApiGroup ==
  /\ UNCHANGED notPrefillVars
  /\ Usable
  /\ fieldSet = "ObjectsAPIPrefillFields"
  /\ \E g \in ApiGroups \ {values.prefillOptions.objectsApiGroup}, confirmSwitch \in BOOLEAN :
       LET check == apiGroupChangeCheck(values, confirmSwitch)
       IN /\ Rerender(IF check.ok
                      THEN [check.values EXCEPT !.prefillOptions.objectsApiGroup = g]
                      ELSE check.values)
          /\ last' = Op("apiGroup", check.asked, check.asked /\ confirmSwitch, check.ok)
  /\ UNCHANGED touched

ChangeObjectType ==
  /\ UNCHANGED notPrefillVars
  /\ Usable
  /\ fieldSet = "ObjectsAPIPrefillFields"
  /\ \E o \in ObjectTypes \ {values.prefillOptions.objecttype}, confirmSwitch \in BOOLEAN :
       LET check == objectTypeChangeCheck(values, confirmSwitch)
       IN /\ Rerender(IF check.ok
                      THEN [check.values EXCEPT !.prefillOptions.objecttype = o]
                      ELSE check.values)
          /\ last' = Op("objecttype", check.asked, check.asked /\ confirmSwitch, check.ok)
  /\ UNCHANGED touched

ChangeObjectTypeVersion ==
  /\ UNCHANGED notPrefillVars
  /\ Usable
  /\ fieldSet = "ObjectsAPIPrefillFields"
  /\ \E v \in Versions \ {values.prefillOptions.objecttypeVersion} :
       /\ Rerender(objectTypeVersionChange(values, v))
       /\ last' = Op("objecttypeVersion", FALSE, FALSE, TRUE)
  /\ UNCHANGED touched

\* VariableMapping: the operator adds a row to prefillOptions.variablesMapping
AddMapping ==
  /\ UNCHANGED notPrefillVars
  /\ Usable
  /\ fieldSet = "ObjectsAPIPrefillFields"
  /\ Len(values.prefillOptions.variablesMapping) < MaxMappings
  /\ \E row \in MappingRows :
       Rerender([values EXCEPT !.prefillOptions.variablesMapping = Append(@, row)])
  /\ last' = Op("mapping", FALSE, FALSE, TRUE)
  /\ UNCHANGED touched

\* a lookup settles: the async function returns, or the backend answers
Respond ==
  /\ UNCHANGED notPrefillVars
  /\ \E q \in requests, ok \in BOOLEAN :
       /\ q.call.kind = "none" => ok
       /\ requests' = requests \ {q}
       /\ last' = Op(IF ~q.live THEN "ignored"
                     ELSE IF q.call.kind = "none" THEN "settled"
                     ELSE IF ok THEN "responseOk" ELSE "responseFailed",
                     FALSE, FALSE, FALSE)
       /\ loader' =
            (IF rev = "useEffect"
             THEN IF ok /\ q.live
                  THEN [loading |-> FALSE, error |-> FALSE,
                        value |-> ChoicesOf(ResponseData(q.call.plugin, q.call.objecttype,
                                                         q.call.version))]
                  ELSE loader
             ELSE IF ~q.live THEN loader
             ELSE IF ~ok THEN [loader EXCEPT !.loading = FALSE, !.error = TRUE]
             ELSE [loading |-> FALSE, error |-> FALSE,
                   value |-> (IF q.call.kind = "none" THEN <<>>
                              ELSE ChoicesOf(ResponseData(q.call.plugin, q.call.objecttype,
                                                          q.call.version)))])
  /\ attributeField' = (IF mounted THEN RenderAttributeField(rev, pluginProp, values, loader')
                        ELSE attributeField)
  /\ UNCHANGED <<rev, pluginProp, values, mounted, fieldSet, touched>>

\* the form is closed: effects are cleaned up
CloseForm ==
  /\ UNCHANGED notPrefillVars
  /\ mounted
  /\ mounted' = FALSE
  /\ requests' = Outdated(requests)
  /\ attributeField' = "absent"
  /\ last' = Op("close", FALSE, FALSE, FALSE)
  /\ UNCHANGED <<rev, pluginProp, values, fieldSet, loader, touched>>

NextPrefill ==
  \/ ChangePlugin
  \/ ChangeAttribute
  \/ ChangeApiGroup
  \/ ChangeObjectType
  \/ ChangeObjectTypeVersion
  \/ AddMapping
  \/ Respond
  \/ CloseForm

(***************************************************************************)
(* VariableSelection.js                                                    *)
(***************************************************************************)
MaxVars == 3

VARIABLE_SOURCES == [userDefined |-> "user_defined", component |-> "component"]

\* FormContext.formSteps
FormSteps ==
  <<[formDefinition |-> "fd1", generatedId |-> "", internalName |-> "", name |-> "Step 1"],
    [formDefinition |-> "", generatedId |-> "gen2", internalName |-> "Internal 2",
     name |-> "Step 2"]>>

\* variables a form can hold; keys are unique
FormVariablePool ==
  {[key |-> "userVar", name |-> "User var", source |-> "user_defined", formDefinition |-> ""],
   [key |-> "textfield", name |-> "Text", source |-> "component", formDefinition |-> "fd1"],
   [key |-> "email", name |-> "Email", source |-> "component", formDefinition |-> "gen2"],
   [key |-> "legacy", name |-> "Legacy", source |-> "", formDefinition |-> ""]}

StaticVariableList ==
  <<[key |-> "now", name |-> "Now", source |-> "", formDefinition |-> ""],
    [key |-> "environment", name |-> "Environment", source |-> "", formDefinition |-> ""]>>

Filters == {"allowAny", "userDefinedOnly", "withFormDefinition"}

allowAny(variable) == TRUE

\* the filter ActionFetchFromService passes: variable => variable.source === 'user_defined'
userDefinedOnly(variable) == variable.source = "user_defined"

\* faulty variant: the filter prop is not applied
ApplyFilter_Ignored(f, variable) == TRUE

\* the predicates callers pass as filter; allowAny is the default
ApplyFilter(f, variable) ==
  CASE f = "allowAny" -> allowAny(variable)
    [] f = "userDefinedOnly" -> userDefinedOnly(variable)
    [] f = "withFormDefinition" -> variable.formDefinition # ""

\* formDefinitionsNames[step.formDefinition || step._generatedId] = step.internalName || step.name
formDefinitionsNames(formDefinition) ==
  LET hits == {i \in 1..Len(FormSteps) :
                 (IF FormSteps[i].formDefinition # "" THEN FormSteps[i].formDefinition
                  ELSE FormSteps[i].generatedId) = formDefinition}
      step == FormSteps[CHOOSE i \in hits : \A j \in hits : j <= i]
  IN IF hits = {} THEN ""
     ELSE IF step.internalName # "" THEN step.internalName ELSE step.name

\* faulty variant: the static variables come after the form variables
allFormVariables_StaticLast(include, static, form) ==
  form \o (IF include THEN static ELSE <<>>)

allFormVariables(include, static, form) ==
  (IF include THEN static ELSE <<>>) \o form

\* faulty variant: every variable that is not user defined counts as a component's
getVariableSource_NoStatic(variable) ==
  IF variable.source = VARIABLE_SOURCES.userDefined THEN "user variables"
  ELSE "component variables"

getVariableSource(variable) ==
  IF variable.source = VARIABLE_SOURCES.userDefined THEN "user variables"
  ELSE IF variable.source = VARIABLE_SOURCES.component THEN "component variables"
  ELSE "static variables"

\* the option of a variable: its key, and a label of name, key and step name
OptionOf(variable) ==
  [value |-> variable.key,
   label |-> <<variable.name, variable.key, formDefinitionsNames(variable.formDefinition)>>]

EmptyGroups ==
  <<[label |-> "user variables", options |-> <<>>],
    [label |-> "component variables", options |-> <<>>],
    [label |-> "static variables", options |-> <<>>]>>

\* one step of the reduce: push the option onto the first group with the label
PushOption(variableGroups, variable) ==
  LET found == CHOOSE i \in 1..Len(variableGroups) :
                 /\ variableGroups[i].label = getVariableSource(variable)
                 /\ \A j \in 1..(i - 1) :
                      variableGroups[j].label # getVariableSource(variable)
  IN [variableGroups EXCEPT ![found].options = Append(@, OptionOf(variable))]

RECURSIVE ReduceChoices(_, _)
ReduceChoices(variables, variableGroups) ==
  IF variables = <<>> THEN variableGroups
  ELSE ReduceChoices(Tail(variables), PushOption(variableGroups, Head(variables)))

VariableSelectionChoices(include, f, static, form) ==
  ReduceChoices(SelectSeq(allFormVariables(include, static, form),
                          LAMBDA variable : ApplyFilter(f, variable)),
                EmptyGroups)

\* names the callers give the picker
SelectionNames == {"variable", "formVariable"}

NoSelectionEvent == [target |-> [name |-> "", value |-> ""]]

\* onChange({target: {name, value: newValue}})
VariableChangeEvent(name, newValue) == [target |-> [name |-> name, value |-> newValue]]

InitSelection ==
  /\ formVariables = <<>>
  /\ staticVariables = StaticVariableList
  /\ includeStaticVariables \in BOOLEAN
  /\ filter \in Filters
  /\ choices = VariableSelectionChoices(includeStaticVariables, filter, staticVariables,
                                        formVariables)
  /\ selName \in SelectionNames
  /\ selPicked = ""
  /\ selEvent = NoSelectionEvent

\* the form context changes and the picker renders again
RenderSelection(form) ==
  /\ formVariables' = form
  /\ choices' = VariableSelectionChoices(includeStaticVariables, filter, staticVariables,
                                         form)
  /\ UNCHANGED <<staticVariables, includeStaticVariables, filter, selName, selPicked,
                 selEvent>>

AddFormVariable ==
  /\ UNCHANGED notSelVars
  /\ Len(formVariables) < MaxVars
  /\ \E variable \in FormVariablePool :
       /\ \A i \in 1..Len(formVariables) : formVariables[i].key # variable.key
       /\ RenderSelection(Append(formVariables, variable))

RemoveFormVariable ==
  /\ UNCHANGED notSelVars
  /\ \E i \in 1..Len(formVariables) :
       RenderSelection(SubSeq(formVariables, 1, i - 1)
                         \o SubSeq(formVariables, i + 1, Len(formVariables)))

\* the operator picks one of the offered options
SelectVariable ==
  /\ UNCHANGED notSelVars
  /\ \E i \in 1..Len(choices) :
       \E j \in 1..Len(choices[i].options) :
         /\ selPicked' = choices[i].options[j].value
         /\ selEvent' = VariableChangeEvent(selName, choices[i].options[j].value)
  /\ UNCHANGED <<formVariables, staticVariables, includeStaticVariables, filter,
                 choices, selName>>

NextSelection == AddFormVariable \/ RemoveFormVariable \/ SelectVariable

(***************************************************************************)
(* Actions.js: ActionFetchFromService hands the service fetch               *)
(* configuration of the selected variable to the picker.                    *)
(***************************************************************************)
JArray(items) == [k |-> "array", v |-> items]

\* an object as its own properties in insertion order, each a <<key, value>>
JObject(properties) == [k |-> "object", v |-> properties]

HeaderPairs == <<<<"Accept", "application/json">>, <<"X-Api-Key", "secret">>>>

\* what a stored configuration can hold for headers and for queryParams
PairHolders ==
  {JArray(<<>>), JArray(SubSeq(HeaderPairs, 1, 1)), JObject(<<>>), JObject(HeaderPairs),
   JNull, JUndefined}

DataMappingTypes == {JStr("JsonLogic"), JStr("jq"), JStr("xpath"), JUndefined}

MappingExpressions == {JStr("expression"), JUndefined}

\* the serviceFetchConfiguration values a form variable can hold
StoredConfigurations ==
  [k : {"config"}, name : {JStr("service")}, headers : PairHolders,
   queryParams : PairHolders, dataMappingType : DataMappingTypes,
   mappingExpression : MappingExpressions, jsonLogicExpression : {JUndefined},
   jqExpression : {JUndefined}] \cup {JNull, JUndefined}

FetchVariableKeys == {"", "configured", "plain", "unknown"}

\* formContext.formVariables of the editor: one variable that can hold a
\* configuration and one that holds none
FetchContext(configuration) ==
  <<[key |-> "configured", serviceFetchConfiguration |-> configuration],
    [key |-> "plain", serviceFetchConfiguration |-> JUndefined]>>

MaxRenders == 3

\* formVariables.find(element => element.key === action.variable): the object
\* found, with the place in formVariables where it lives (at)
FindVariable(variables, key) ==
  LET hits == {i \in 1..Len(variables) : variables[i].key = key}
      first == CHOOSE i \in hits : \A j \in hits : i <= j
  IN IF hits = {} THEN JUndefined
     ELSE [k |-> "variable", v |-> variables[first], at |-> first]

\* faulty variant: the object of the form context itself is handed on
cloneDeep_SameObject(value) == value

\* _.cloneDeep: an object equal to the one copied that lives outside formVariables
cloneDeep(value) == IF value.k = "variable" THEN [value EXCEPT !.at = 0] ELSE value

\* Object.entries(x || {})
ObjectEntries(x) == IF x.k = "object" THEN JArray(x.v) ELSE JArray(<<>>)

\* if (!Array.isArray(x)) x = Object.entries(x || {})
NormalisePairs(x) == IF x.k = "array" THEN x ELSE ObjectEntries(x)

\* faulty variant: the case of JsonLogic has no break and falls through
NormaliseMapping_Fallthrough(config) ==
  IF config.dataMappingType = JStr("JsonLogic")
  THEN [config EXCEPT !.jsonLogicExpression = config.mappingExpression,
                      !.jqExpression = config.mappingExpression]
  ELSE [config EXCEPT !.jqExpression = config.mappingExpression]

\* switch (serviceFetchConfigFromVar.dataMappingType)
NormaliseMapping(config) ==
  CASE config.dataMappingType = JStr("JsonLogic") ->
         [config EXCEPT !.jsonLogicExpression = config.mappingExpression]
    [] config.dataMappingType = JStr("jq") ->
         [config EXCEPT !.jqExpression = config.mappingExpression]
    [] OTHER -> [config EXCEPT !.jqExpression = config.mappingExpression]

\* what ActionFetchFromService computes in a render and hands to the picker
serviceFetchConfigFromVar(variables, variable) ==
  LET found == cloneDeep(FindVariable(variables, variable))
      config == IF found.k = "variable" THEN found.v.serviceFetchConfiguration
                ELSE JUndefined
  IN IF config.k # "config" THEN JUndefined
     ELSE NormaliseMapping([config EXCEPT !.headers = NormalisePairs(@),
                                          !.queryParams = NormalisePairs(@)])

\* a new action: no variable selected, no configuration stored yet
\* formVariables after a render: the assignments to serviceFetchConfigFromVar
\* write into the object it refers to, which is part of formVariables only
\* when that object lives there
ContextAfterRender(variables, variable) ==
  LET found == cloneDeep(FindVariable(variables, variable))
      written == serviceFetchConfigFromVar(variables, variable)
  IN IF found.k = "variable" /\ found.at # 0 /\ written.k = "config"
     THEN [variables EXCEPT ![found.at].serviceFetchConfiguration = written]
     ELSE variables

InitFetch ==
  /\ handedContext = FetchContext(JUndefined)
  /\ fetchVariable = ""
  /\ initialValues = serviceFetchConfigFromVar(handedContext, fetchVariable)
  /\ fetchContext = ContextAfterRender(handedContext, fetchVariable)
  /\ renders = 1

\* the operator picks another variable; the parent stores it in action.variable
\* and the editor renders again
ChangeFetchVariable ==
  /\ UNCHANGED notFetchVars
  /\ \E key \in FetchVariableKeys \ {fetchVariable} :
       /\ fetchVariable' = key
       /\ initialValues' = serviceFetchConfigFromVar(fetchContext, key)
       /\ fetchContext' = ContextAfterRender(fetchContext, key)
  /\ renders' = (IF renders < MaxRenders THEN renders + 1 ELSE renders)
  /\ UNCHANGED handedContext

\* the form context comes with another configuration on the variable and the
\* editor renders again
ChangeFetchContext ==
  /\ UNCHANGED notFetchVars
  /\ \E configuration \in StoredConfigurations :
       /\ handedContext' = FetchContext(configuration)
       /\ handedContext' # handedContext
       /\ initialValues' = serviceFetchConfigFromVar(handedContext', fetchVariable)
       /\ fetchContext' = ContextAfterRender(handedContext', fetchVariable)
  /\ renders' = 1
  /\ UNCHANGED fetchVariable

\* the editor renders again with the props and the context it has
RenderFetchAgain ==
  /\ UNCHANGED notFetchVars
  /\ renders < MaxRenders
  /\ initialValues' = serviceFetchConfigFromVar(fetchContext, fetchVariable)
  /\ fetchContext' = ContextAfterRender(fetchContext, fetchVariable)
  /\ renders' = renders + 1
  /\ UNCHANGED <<fetchVariable, handedContext>>

NextFetch == ChangeFetchVariable \/ ChangeFetchContext \/ RenderFetchAgain

(***************************************************************************)
(* password.js: the edit form of the password field.  The tabs come from   *)
(* ./edit/tabs; the components of SENSITIVE_PASSWORD are an input here.     *)
(***************************************************************************)
MaxOptions == 4

LABEL_REQUIRED == [type |-> "textfield", key |-> "label", label |-> "Label"]

KEY == [type |-> "textfield", key |-> "key", label |-> "Property Name"]

SHOW_IN_SUMMARY ==
  [type |-> "checkbox", key |-> "showInSummary", label |-> "Show in summary"]

AUTOCOMPLETE == [type |-> "select", key |-> "autocomplete", label |-> "Autocomplete"]

IS_SENSITIVE_DATA ==
  [type |-> "checkbox", key |-> "isSensitiveData", label |-> "Is Sensitive Data"]

\* DEFAULT_VALUE has no type
DEFAULT_VALUE == [type |-> "", key |-> "defaultValue", label |-> "Default Value"]

EditOptions ==
  {LABEL_REQUIRED, KEY, SHOW_IN_SUMMARY, AUTOCOMPLETE, IS_SENSITIVE_DATA, DEFAULT_VALUE}

\* the tabs imported from ./edit/tabs, by their keys
Tab(key, components) == [key |-> key, components |-> components]

SENSITIVE_PASSWORD(components) == Tab("basic", components)

ADVANCED == Tab("advanced", <<>>)

VALIDATION == Tab("validation", <<>>)

REGISTRATION == Tab("registration", <<>>)

TRANSLATIONS == Tab("translations", <<>>)

\* the tab set as ./edit/tabs exports it: the unfiltered basic tab first
DEFAULT_PASSWORD_TABS(components) ==
  [type |-> "tabs", key |-> "tabs",
   components |-> <<SENSITIVE_PASSWORD(components), ADVANCED, VALIDATION, REGISTRATION,
                    TRANSLATIONS>>]

\* faulty variant: the components of the basic tab are not filtered
FilterOptions_Unfiltered(components) == components

\* SENSITIVE_PASSWORD.components.filter(option => option.key !== DEFAULT_VALUE.key)
FilterOptions(components) ==
  SelectSeq(components, LAMBDA option : option.key # DEFAULT_VALUE.key)

\* PasswordField.editForm()
editForm(components) ==
  [components |->
     <<[DEFAULT_PASSWORD_TABS(components) EXCEPT
          !.components =
            <<[SENSITIVE_PASSWORD(components) EXCEPT
                 !.components = FilterOptions(components)],
              ADVANCED, VALIDATION, REGISTRATION, TRANSLATIONS>>]>>]

\* sequences of distinct options, up to MaxOptions of them
OptionLists ==
  UNION {{list \in [1..n -> EditOptions] : \A i, j \in 1..n : i # j => list[i] # list[j]} :
           n \in 0..MaxOptions}

NoForm == [components |-> <<>>]

InitPassword ==
  /\ sensitiveComponents \in OptionLists
  /\ formCalled = FALSE
  /\ editFormResult = NoForm

\* the builder asks the component for its edit form
CallEditForm ==
  /\ UNCHANGED notPasswordVars
  /\ formCalled' = TRUE
  /\ editFormResult' = editForm(sensitiveComponents)
  /\ UNCHANGED sensitiveComponents

NextPassword == CallEditForm

IdlePassword ==
  /\ sensitiveComponents = <<>>
  /\ formCalled = FALSE
  /\ editFormResult = NoForm

\* the groups of variables a specification does not use stay as they are
IdleAction ==
  /\ act = [type |-> "", property |-> [type |-> "", value |-> ""], state |-> Unset]
  /\ errors = "noErrors"
  /\ onChange = "handlerA"
  /\ out = RenderedNull
  /\ shown = NotShown
  /\ lastEvent = NoEvent
  /\ picked = NoPick

IdlePrefill ==
  /\ rev = "useEffect"
  /\ pluginProp = ""
  /\ values = [plugin |-> "", attribute |-> NoAttribute,
               prefillOptions |-> DefaultPrefillOptions]
  /\ mounted = FALSE
  /\ fieldSet = "PrefillFields"
  /\ loader = Loading
  /\ requests = {}
  /\ attributeField = "absent"
  /\ touched = FALSE
  /\ last = Op("mount", FALSE, FALSE, FALSE)

IdleSelection ==
  /\ formVariables = <<>>
  /\ staticVariables = <<>>
  /\ includeStaticVariables = FALSE
  /\ filter = "allowAny"
  /\ choices = EmptyGroups
  /\ selName = "variable"
  /\ selPicked = ""
  /\ selEvent = NoSelectionEvent

IdleFetch ==
  /\ fetchContext = <<>>
  /\ fetchVariable = ""
  /\ initialValues = JUndefined
  /\ handedContext = <<>>
  /\ renders = 0

(***************************************************************************)
(* The coercion on its own: a stored state of each type is shown as a      *)
(* string by the state select, and the shown option is selected again.     *)
(***************************************************************************)
\* a property of each type of the coercion tables
TypedProperties ==
  {[type |-> PropertyTypeOf(p), value |-> p] : p \in DOMAIN MODIFIABLE_PROPERTIES}
    \cup {[type |-> "json", value |-> "json-property"]}

TypedActions ==
  {a \in [type : {"property"}, property : TypedProperties, state : JsonValues] :
     a.state \in TypedStates(a.property.type)}

InitCoerce ==
  /\ act \in TypedActions
  /\ errors \in ErrorProps
  /\ onChange \in Handlers
  /\ out = ActionComponent(act, errors, onChange)
  /\ shown = NotShown
  /\ lastEvent = NoEvent
  /\ picked = NoPick

ShowState ==
  /\ UNCHANGED notActionVars
  /\ shown = NotShown
  /\ shown' = castValueTypeToString(act)
  /\ UNCHANGED <<act, errors, onChange, out, lastEvent, picked>>

ReselectShown ==
  /\ UNCHANGED notActionVars
  /\ shown # NotShown
  /\ lastEvent = NoEvent
  /\ lastEvent' = StateChangeEvent(act, "action.state", shown)
  /\ picked' = Picked("action.state", "", shown)
  /\ UNCHANGED <<act, errors, onChange, out, shown>>

NextCoerce == ShowState \/ ReselectShown

InitSpecAction == InitAction /\ IdlePrefill /\ IdleSelection /\ IdleFetch /\ IdlePassword

InitSpecCoerce == InitCoerce /\ IdlePrefill /\ IdleSelection /\ IdleFetch /\ IdlePassword

InitSpecPrefill == InitPrefill /\ IdleAction /\ IdleSelection /\ IdleFetch /\ IdlePassword

InitSpecSelection == InitSelection /\ IdleAction /\ IdlePrefill /\ IdleFetch /\ IdlePassword

InitSpecFetch == InitFetch /\ IdleAction /\ IdlePrefill /\ IdleSelection /\ IdlePassword

InitSpecPassword ==
  InitPassword /\ IdleAction /\ IdlePrefill /\ IdleSelection /\ IdleFetch

\* the property editor and a variable picker side by side
InitSpecEvents ==
  /\ InitAction /\ act.type = "property" /\ errors = "noErrors" /\ onChange = "handlerA"
  /\ InitSelection /\ IdlePrefill /\ IdleFetch /\ IdlePassword

SpecAction == InitSpecAction /\ [][NextAction]_vars

SpecCoerce == InitSpecCoerce /\ [][NextCoerce]_vars

SpecPrefill == InitSpecPrefill /\ [][NextPrefill]_vars

SpecSelection == InitSpecSelection /\ [][NextSelection]_vars

NextEvents == NextAction \/ NextSelection

SpecEvents == InitSpecEvents /\ [][NextEvents]_vars

SpecFetch == InitSpecFetch /\ [][NextFetch]_vars

SpecPassword == InitSpecPassword /\ [][NextPassword]_vars

(***************************************************************************)
(* Claims                                                                  *)
(***************************************************************************)
EditorOf ==
  [t \in {"property", "variable", "fetch-from-service", "step-not-applicable",
          "step-applicable", "set-registration-backend"} |->
     CASE t = "property" -> "ActionProperty"
       [] t = "variable" -> "ActionVariableValue"
       [] t = "fetch-from-service" -> "ActionFetchFromService"
       [] t = "step-not-applicable" -> "ActionStepNotApplicable"
       [] t = "step-applicable" -> "ActionStepApplicable"
       [] t = "set-registration-backend" -> "ActionSetRegistrationBackend"]

\* C1: for each of the six editor types ActionComponent renders exactly the
\* editor of that type, handing it the action, errors and onChange it received.
C1_DispatchToEditor ==
  act.type \in DOMAIN EditorOf =>
    /\ out.kind = "element"
    /\ out.Component = EditorOf[act.type]
    /\ out.props = [action |-> act, errors |-> errors, onChange |-> onChange]

C1_Witness ==
  /\ act.type = "step-applicable"
  /\ out.kind = "element"
  /\ out.props.errors = "someErrors"

C3_StateLegalForType ==
  act.type = "property" => act.state \in LegalStates(act.property.type)

\* C4: whenever the value of the plugin field changes after the form is first
\* shown, the attribute field is reset to the empty string.
C4_PluginChangeResetsAttribute ==
  [][values'.plugin # values.plugin => values'.attribute = NoAttribute]_vars

\* C5: a change of API group or object type with a non-empty mapping asks for
\* confirmation; when the operator declines, the change is rejected and the
\* mapping (with the rest of the prefill options) is left as it was.
C5_DeclinedChangeRejected ==
  [][(/\ last'.op \in {"apiGroup", "objecttype"}
      /\ Len(values.prefillOptions.variablesMapping) > 0)
     => /\ last'.asked
        /\ ~last'.confirmed =>
             /\ ~last'.accepted
             /\ values'.prefillOptions = values.prefillOptions]_vars

C5_Witness ==
  /\ last.op = "apiGroup"
  /\ last.asked /\ ~last.confirmed /\ ~last.accepted
  /\ Len(values.prefillOptions.variablesMapping) = MaxMappings

\* C6: every accepted change of API group or object type leaves the mapping
\* empty: an empty mapping is accepted without asking, a non-empty one is
\* cleared after the operator confirmed.
C6_AcceptedChangeClearsMapping ==
  [][(last'.op \in {"apiGroup", "objecttype"} /\ last'.accepted)
     => /\ values'.prefillOptions.variablesMapping = <<>>
        /\ Len(values.prefillOptions.variablesMapping) = 0 => ~last'.asked
        /\ Len(values.prefillOptions.variablesMapping) > 0 =>
             last'.asked /\ last'.confirmed]_vars

C6_Witness ==
  /\ last.op = "objecttype"
  /\ last.asked /\ last.confirmed /\ last.accepted
  /\ values.prefillOptions.variablesMapping = <<>>
  /\ values.prefillOptions.objecttype = "ot2"

\* C7: after the plugin value changes the mapping is empty, and a non-empty
\* mapping was discarded only after the operator was asked to confirm.
C7_PluginChangeClearsMapping ==
  [][values'.plugin # values.plugin
     => /\ values'.prefillOptions.variablesMapping = <<>>
        /\ Len(values.prefillOptions.variablesMapping) > 0 => last'.asked]_vars

\* the attributes of the selection the form shows now
ChoicesOfSelection ==
  IF rev = "useAsync" /\ values.plugin = ObjectsPluginId[rev]
  THEN IF values.prefillOptions.objecttype = "" \/ values.prefillOptions.objecttypeVersion = 0
       THEN <<>>
       ELSE ChoicesOf(ResponseData(values.plugin, values.prefillOptions.objecttype,
                                   values.prefillOptions.objecttypeVersion))
  ELSE ChoicesOf(ResponseData(values.plugin, "", 0))

\* C8: once the operator has changed the plugin and loading has finished, the
\* choices offered are the attributes of the plugin that is selected now.
C8_ChoicesFollowSelection ==
  (mounted /\ touched /\ ~loader.loading /\ ~loader.error)
    => prefillAttributes(loader) = ChoicesOfSelection

Candidates == (IF includeStaticVariables THEN staticVariables ELSE <<>>) \o formVariables

Offered == choices[1].options \o choices[2].options \o choices[3].options

AllVariables ==
  FormVariablePool \cup {StaticVariableList[i] : i \in 1..Len(StaticVariableList)}

IsCandidate(variable) == \E i \in 1..Len(Candidates) : Candidates[i] = variable

PlaceOf(key) == CHOOSE i \in 1..Len(Candidates) : Candidates[i].key = key

\* C10: a variable is offered iff it is a candidate (a form variable, or a
\* static variable when these are included) that passes the filter; it is
\* offered once, under its key, and each group keeps the order of the input.
C10_OfferedIffCandidatePassesFilter ==
  /\ \A variable \in AllVariables :
       LET places == {i \in 1..Len(Offered) : Offered[i].value = variable.key}
       IN /\ places # {} <=> (IsCandidate(variable) /\ ApplyFilter(filter, variable))
          /\ Cardinality(places) <= 1
  /\ \A g \in 1..Len(choices) : \A i, j \in 1..Len(choices[g].options) :
       i < j => PlaceOf(choices[g].options[i].value) < PlaceOf(choices[g].options[j].value)
  /\ filter = "allowAny" => Len(Offered) = Len(Candidates)
  /\ ~includeStaticVariables =>
       \A i \in 1..Len(Offered), j \in 1..Len(staticVariables) :
         Offered[i].value # staticVariables[j].key

C10_Witness ==
  /\ includeStaticVariables
  /\ filter = "allowAny"
  /\ Len(choices[3].options) = 3
  /\ Len(choices[2].options) = 2

\* C11: picking a property makes ActionProperty hand onChange the event named
\* 'action.property' whose value is {type, value}: value is the picked key and
\* type the type MODIFIABLE_PROPERTIES gives that key, or '' for the blank option
\* and for a key the table does not hold; the parent stores that value. Picking
\* a variable makes VariableSelection hand on {target: {name, value}} with its
\* own name and the picked value.
C11_SelectionEvents ==
  /\ picked.select = "action.property" =>
       /\ lastEvent =
            [name |-> "action.property",
             value |-> [type |-> (IF picked.key \in {"validate.required", "hidden",
                                                      "disabled"}
                                  THEN MODIFIABLE_PROPERTIES[picked.key].type ELSE ""),
                        value |-> picked.key]]
       /\ act.property = lastEvent.value
  /\ selPicked # "" => selEvent = [target |-> [name |-> selName, value |-> selPicked]]

C11_Witness ==
  /\ picked.select = "action.property"
  /\ picked.key = "unknown-property"
  /\ lastEvent.value.type = ""
  /\ selName = "formVariable"
  /\ selEvent.target.value = "email"

\* the action types the switch of ActionComponent has a case for
KnownActionTypes ==
  {"", "disable-next", "property", "variable", "fetch-from-service",
   "step-not-applicable", "step-applicable", "set-registration-backend"}

\* C12: for every action type the switch has no case for, ActionComponent
\* throws the error 'Unknown action type: <type>' and renders no editor.
C12_UnknownTypeThrows ==
  act.type \notin KnownActionTypes =>
    /\ out.kind = "throw"
    /\ out.message = <<"Unknown action type: ", act.type>>
    /\ out.kind # "element"

C12_Witness ==
  /\ act.type = "copy-value"
  /\ out = [kind |-> "throw", message |-> <<"Unknown action type: ", "copy-value">>]

\* C13: for the action types '' and 'disable-next' ActionComponent renders
\* nothing (null) and throws no error.
C13_NothingToConfigure ==
  act.type \in {"", "disable-next"} =>
    /\ out.kind = "null"
    /\ out.kind \notin {"throw", "element"}

C13_Witness ==
  /\ act.type = "disable-next"
  /\ out.kind = "null"
  /\ errors = "someErrors"

\* C14: ActionProperty shows the state dropdown exactly when the property value
\* of the action is a key of MODIFIABLE_PROPERTIES, and only then is the state
\* coerced to or from a string; in every action reached through the property
\* select no coercion function is looked up for an empty or unknown type, so no
\* TypeError comes out of rendering or of picking a state.
C14_StateSelectOnlyForKnownProperty ==
  act.type = "property" =>
    /\ shown # NotShown <=> act.property.value \in {"validate.required", "hidden", "disabled"}
    /\ shown # NotShown => act.property.type \in CoercionTypes
    /\ shown # TypeError
    /\ picked.select = "action.state" => lastEvent.value # TypeError

C14_Witness ==
  /\ act.type = "property"
  /\ picked.select = "action.property"
  /\ act.property = [type |-> "", value |-> "unknown-property"]
  /\ act.state = JBool(TRUE)
  /\ shown = NotShown

\* C15: a response to the attributes request that arrives after the component
\* was cleaned up never changes the choice list; choices are set only by a
\* response that arrives while the component is mounted.
C15_NoUpdateAfterCleanup ==
  [][/\ ~mounted => loader' = loader
     /\ (loader'.value # loader.value /\ loader'.value # <<>>) =>
          (mounted /\ last'.op = "responseOk")]_vars

C15_Witness ==
  /\ ~mounted
  /\ last.op = "ignored"
  /\ loader.loading
  /\ loader.value = <<>>

\* C16: a non-ok response to the attributes request is surfaced as an error
\* thrown to the error boundary and the dropdown does not stay loading; while
\* the request is pending the dropdown shows the loading placeholder, and after
\* an ok response it shows one [id, label] choice per returned attribute.
C16_FailureSurfaced ==
  /\ (mounted /\ last.op = "responseFailed") => (loader.error /\ ~loader.loading)
  /\ loader.loading => prefillAttributes(loader) = LOADING_OPTION
  /\ (mounted /\ last.op = "responseOk") =>
       /\ ~loader.loading
       /\ \A i \in 1..Len(loader.value) : Len(loader.value[i]) = 2

\* the selections the attributes lookup needs: a plugin, and for the Objects
\* API plugin an objecttype and a version as well
SelectionComplete ==
  /\ values.plugin # ""
  /\ values.plugin = ObjectsPluginId[rev] =>
       /\ values.prefillOptions.objecttype # ""
       /\ values.prefillOptions.objecttypeVersion # 0

\* the lookup of the attributes of the current selection
LookupOfSelection ==
  Live([kind |-> "get", plugin |-> values.plugin,
        objecttype |-> values.prefillOptions.objecttype,
        version |-> values.prefillOptions.objecttypeVersion])

\* C17: in the revision that loads the attributes with useAsync, no attributes
\* request is issued while a required selection is missing (the plugin; for the
\* Objects API editor also objecttype and objecttypeVersion), and the choice
\* list is then empty; in the Objects API editor every accepted change of
\* objecttype or objecttypeVersion starts a lookup for the new combination.
C17_LookupOnlyForCompleteSelection ==
  [][rev = "useAsync" =>
       /\ \A q \in requests' \ requests :
            (q.live /\ q.call.kind = "get") => SelectionComplete'
       /\ (mounted' /\ ~SelectionComplete' /\ ~loader'.loading /\ ~loader'.error) =>
            loader'.value = <<>>
       /\ (/\ last'.op \in {"objecttype", "objecttypeVersion"}
           /\ last'.accepted
           /\ SelectionComplete') => LookupOfSelection' \in requests']_vars

\* the source of the variable an option value stands for
SourceOfKey(key) == (CHOOSE variable \in AllVariables : variable.key = key).source

\* C18: with the filter the fetch-from-service editor passes, the picker offers
\* only variables whose source is 'user_defined': the groups of component and
\* static variables stay empty and what the operator picks is user defined.
C18_OnlyUserDefinedOffered ==
  filter = "userDefinedOnly" =>
    /\ \A i \in 1..Len(Offered) : SourceOfKey(Offered[i].value) = "user_defined"
    /\ choices[2].options = <<>>
    /\ choices[3].options = <<>>
    /\ selPicked # "" => SourceOfKey(selPicked) = "user_defined"

C18_Witness ==
  /\ filter = "userDefinedOnly"
  /\ Len(formVariables) = MaxVars
  /\ \E i \in 1..Len(formVariables) : formVariables[i].source = "component"
  /\ Len(Offered) = 1
  /\ selPicked = "userVar"

\* C19: VariableSelection always renders the three groups 'user variables',
\* 'component variables', 'static variables' in this order, empty or not; an
\* offered variable is in the first group iff its source is 'user_defined', in
\* the second iff it is 'component', and in the third for every other source.
C19_ThreeGroupsBySource ==
  /\ Len(choices) = 3
  /\ choices[1].label = "user variables"
  /\ choices[2].label = "component variables"
  /\ choices[3].label = "static variables"
  /\ \A g \in 1..3 : \A i \in 1..Len(choices[g].options) :
       LET source == SourceOfKey(choices[g].options[i].value)
       IN /\ g = 1 <=> source = "user_defined"
          /\ g = 2 <=> source = "component"
          /\ g = 3 <=> source \notin {"user_defined", "component"}

C19_Witness ==
  /\ ~includeStaticVariables
  /\ filter = "allowAny"
  /\ choices[1].options = <<>>
  /\ Len(choices[2].options) = 1
  /\ \E i \in 1..Len(choices[3].options) : choices[3].options[i].value = "legacy"

\* the variable action.variable names in the form context, and what it stores
SelectedFetchVariables == {i \in 1..Len(fetchContext) : fetchContext[i].key = fetchVariable}

StoredConfiguration ==
  IF SelectedFetchVariables = {} THEN JUndefined
  ELSE fetchContext[CHOOSE i \in SelectedFetchVariables :
                      \A j \in SelectedFetchVariables : i <= j].serviceFetchConfiguration

\* headers or queryParams as handed to the picker, against what is stored
PairsNormalised(handed, stored) ==
  /\ handed.k = "array"
  /\ \A i \in 1..Len(handed.v) : Len(handed.v[i]) = 2
  /\ stored.k = "array" => handed = stored
  /\ stored.k = "object" => handed.v = stored.v
  /\ stored.k \in {"null", "undefined"} => handed.v = <<>>

\* C20: when the selected variable has a service fetch configuration, the
\* picker gets it with headers and queryParams as arrays of [key, value]
\* pairs (an array as it is, an object as its entries, a missing value as the
\* empty array), with mappingExpression copied to jsonLogicExpression exactly
\* when dataMappingType is 'JsonLogic' and to jqExpression otherwise, never to
\* both; when the variable is not found or has no configuration the picker
\* gets undefined.
C20_ConfigurationHandedToPicker ==
  IF StoredConfiguration.k # "config" THEN initialValues = JUndefined
  ELSE /\ initialValues.k = "config"
       /\ PairsNormalised(initialValues.headers, StoredConfiguration.headers)
       /\ PairsNormalised(initialValues.queryParams, StoredConfiguration.queryParams)
       /\ initialValues.name = StoredConfiguration.name
       /\ initialValues.dataMappingType = StoredConfiguration.dataMappingType
       /\ initialValues.mappingExpression = StoredConfiguration.mappingExpression
       /\ IF StoredConfiguration.dataMappingType = JStr("JsonLogic")
          THEN /\ initialValues.jsonLogicExpression = StoredConfiguration.mappingExpression
               /\ initialValues.jqExpression = JUndefined
          ELSE /\ initialValues.jqExpression = StoredConfiguration.mappingExpression
               /\ initialValues.jsonLogicExpression = JUndefined

C20_Witness ==
  /\ fetchVariable = "configured"
  /\ StoredConfiguration.k = "config"
  /\ StoredConfiguration.headers = JObject(HeaderPairs)
  /\ StoredConfiguration.queryParams = JUndefined
  /\ StoredConfiguration.dataMappingType = JUndefined
  /\ initialValues.headers = JArray(HeaderPairs)
  /\ initialValues.queryParams = JArray(<<>>)
  /\ initialValues.jqExpression = JStr("expression")

\* C21: rendering the fetch-from-service editor leaves the form context as it
\* was handed over: the normalisation is written to a deep copy, so after any
\* number of renders the serviceFetchConfiguration of every variable in
\* formContext.formVariables is the stored one.
C21_RenderLeavesContextUnchanged ==
  /\ Len(fetchContext) = Len(handedContext)
  /\ \A i \in 1..Len(fetchContext) :
       /\ fetchContext[i].key = handedContext[i].key
       /\ fetchContext[i].serviceFetchConfiguration =
            handedContext[i].serviceFetchConfiguration

C21_Witness ==
  /\ renders = MaxRenders
  /\ fetchVariable = "configured"
  /\ handedContext[1].serviceFetchConfiguration.k = "config"
  /\ handedContext[1].serviceFetchConfiguration.headers = JObject(HeaderPairs)
  /\ handedContext[1].serviceFetchConfiguration.dataMappingType = JStr("JsonLogic")
  /\ initialValues.headers = JArray(HeaderPairs)
  /\ initialValues.jsonLogicExpression = JStr("expression")
  /\ fetchContext[1].serviceFetchConfiguration.headers = JObject(HeaderPairs)
  /\ fetchContext[1].serviceFetchConfiguration.jsonLogicExpression = JUndefined

\* C22: changing the object type version in the Objects API prefill editor
\* asks the operator nothing, takes effect and leaves
\* prefillOptions.variablesMapping as it is; a step that empties a mapping that
\* had rows is a confirmed change of the API group or of the object type.
C22_VersionChangeKeepsMapping ==
  [][/\ last'.op = "objecttypeVersion" =>
          /\ ~last'.asked
          /\ last'.accepted
          /\ values'.prefillOptions.objecttypeVersion # values.prefillOptions.objecttypeVersion
          /\ values'.prefillOptions.variablesMapping = values.prefillOptions.variablesMapping
     /\ (/\ values.prefillOptions.variablesMapping # <<>>
         /\ values'.prefillOptions.variablesMapping = <<>>) =>
          (last'.op \in {"apiGroup", "objecttype"} /\ last'.confirmed)]_vars

C22_Witness ==
  /\ last.op = "objecttypeVersion"
  /\ ~last.asked
  /\ values.prefillOptions.objecttypeVersion = 2
  /\ Len(values.prefillOptions.variablesMapping) = MaxMappings

\* the places of SENSITIVE_PASSWORD.components whose key is not 'defaultValue'
KeptPlaces == {i \in 1..Len(sensitiveComponents) : sensitiveComponents[i].key # "defaultValue"}

\* the n-th of these places
KeptPlace(n) == CHOOSE i \in KeptPlaces : Cardinality({j \in KeptPlaces : j <= i}) = n

\* C23: the edit form of the password field has one tab set whose tabs are, in
\* order, the basic tab, ADVANCED, VALIDATION, REGISTRATION and TRANSLATIONS;
\* the basic tab holds every component of SENSITIVE_PASSWORD except the one
\* with key 'defaultValue', in the original order, so it offers no default
\* value option.
C23_PasswordEditForm ==
  formCalled =>
    /\ Len(editFormResult.components) = 1
    /\ editFormResult.components[1].key = DEFAULT_PASSWORD_TABS(sensitiveComponents).key
    /\ Len(editFormResult.components[1].components) = 5
    /\ editFormResult.components[1].components[1].key = "basic"
    /\ SubSeq(editFormResult.components[1].components, 2, 5) =
         <<ADVANCED, VALIDATION, REGISTRATION, TRANSLATIONS>>
    /\ LET basic == editFormResult.components[1].components[1].components
       IN /\ Len(basic) = Cardinality(KeptPlaces)
          /\ \A n \in 1..Len(basic) : basic[n] = sensitiveComponents[KeptPlace(n)]
          /\ \A n \in 1..Len(basic) : basic[n].key # "defaultValue"

C23_Witness ==
  /\ formCalled
  /\ Len(sensitiveComponents) = MaxOptions
  /\ sensitiveComponents[2] = DEFAULT_VALUE
  /\ sensitiveComponents[3] = SHOW_IN_SUMMARY
  /\ Len(editFormResult.components[1].components[1].components) = MaxOptions - 1
  /\ editFormResult.components[1].components[1].components[2] = SHOW_IN_SUMMARY

=============================================================================
